---- MODULE Spec2Model ----
(***************************************************************************)
(* A model of src/identifier.rs: the validated, case-folded name type      *)
(* Identifier, its constructor Identifier::new, the free function          *)
(* normalize with its nested is_valid, and the trait implementations       *)
(* (Deref, Display, Debug, PartialEq, Clone).                              *)
(*                                                                         *)
(* A &str / String is a sequence of characters, a character is its Unicode *)
(* scalar value (a natural number).  An Option<T> is a record with a tag.  *)
(***************************************************************************)
EXTENDS Integers, Sequences, FiniteSets, TLC

\* Longest input handed to Identifier::new in the single-call scenario.
MaxLen == 3
\* Longest input handed to Identifier::new in the two-identifier scenario.
MaxPairLen == 3

\* The characters the source names in its patterns.
Digit0 == 48
Digit9 == 57
Space == 32
Underscore == 95
LowerA == 97
LowerZ == 122
UpperA == 65
UpperZ == 90

\* The characters inputs are drawn from in the single-call scenario: every
\* character the patterns name, the neighbour just outside each range
\* ('/' ':' '@' '[' '`' '{'), the controls tab and newline, the punctuation
\* '-', and the non-ASCII letters U+00C9 (upper-case E acute) and U+00E9.
Chars ==
    { 9, 10, Space, 45, 47, Digit0, Digit9, 58, 64, UpperA, UpperZ, 91,
      Underscore, 96, LowerA, LowerZ, 123, 201, 233 }

\* The characters inputs are drawn from in the two-identifier scenario.
PairChars == { UpperA, LowerA, Digit0, Space, 45 }

\* All strings over S of length at most n.
Strings(S, n) == UNION { [1..k -> S] : k \in 0..n }

Inputs == Strings(Chars, MaxLen)
PairInputs == Strings(PairChars, MaxPairLen)

\* Option<T>
None == [tag |-> "None"]
Some(x) == [tag |-> "Some", v |-> x]
\* A local not assigned yet (the call has not reached the place that sets it).
Pending == [tag |-> "Pending"]

----------------------------------------------------------------------------
(* Characters *)

\* A slip: the first-character pattern without its ' ' alternative.
is_digit_only(c) == Digit0 <= c /\ c <= Digit9

\* line 64: the pattern '0'...'9' | ' ' on the first character
is_digit_or_space(c) == (Digit0 <= c /\ c <= Digit9) \/ c = Space

\* A slip: the two letter ranges written as the one range 'A'...'z'.
is_allowed_one_range(c) ==
    \/ (UpperA <= c /\ c <= LowerZ)
    \/ (Digit0 <= c /\ c <= Digit9)
    \/ c = Underscore
    \/ c = Space

\* A slip: the pattern without its 'a'...'z' alternative, so that a canonical
\* text is not a valid input.
is_allowed_no_lower(c) ==
    \/ (UpperA <= c /\ c <= UpperZ)
    \/ (Digit0 <= c /\ c <= Digit9)
    \/ c = Underscore
    \/ c = Space

\* line 68: the pattern 'a'...'z' | 'A'...'Z' | '0'...'9' | '_' | ' '
is_allowed(c) ==
    \/ (LowerA <= c /\ c <= LowerZ)
    \/ (UpperA <= c /\ c <= UpperZ)
    \/ (Digit0 <= c /\ c <= Digit9)
    \/ c = Underscore
    \/ c = Space

\* A slip: the range of folded letters starts one letter late.
to_ascii_lowercase_late(c) == IF UpperA < c /\ c <= UpperZ THEN c + 32 ELSE c

\* A slip: no folding at all.
to_ascii_lowercase_none(c) == c

\* line 81: char::to_ascii_lowercase: 'A'..='Z' get bit 0x20 set, every other
\* character (non-ASCII included) is returned as it is.
to_ascii_lowercase(c) == IF UpperA <= c /\ c <= UpperZ THEN c + 32 ELSE c

\* line 61: value.chars().nth(n), n counted from 0
chars_nth(value, n) == IF n < Len(value) THEN Some(value[n + 1]) ELSE None

----------------------------------------------------------------------------
(* The pure functions, computed as the code computes them *)

\* lines 66-71: value.chars().all(..) from position i on; stops at the first
\* character the closure rejects.
RECURSIVE chars_all(_, _)
chars_all(value, i) ==
    IF i > Len(value) THEN TRUE
    ELSE IF is_allowed(value[i]) THEN chars_all(value, i + 1)
    ELSE FALSE

\* lines 60-77
is_valid(value) ==
    LET first == chars_nth(value, 0) IN
    IF first.tag = "Some"
    THEN IF is_digit_or_space(first.v) THEN FALSE ELSE chars_all(value, 1)
    ELSE FALSE

\* lines 80-82: value.chars().map(|c| c.to_ascii_lowercase()).collect()
RECURSIVE chars_map_collect(_, _, _)
chars_map_collect(value, i, acc) ==
    IF i > Len(value) THEN acc
    ELSE chars_map_collect(value, i + 1, Append(acc, to_ascii_lowercase(value[i])))

\* A slip: trailing spaces trimmed before the text is validated and folded.
RECURSIVE trim_end(_)
trim_end(value) ==
    IF Len(value) > 0 /\ value[Len(value)] = Space
    THEN trim_end(SubSeq(value, 1, Len(value) - 1))
    ELSE value

normalize_trim(value) ==
    IF is_valid(trim_end(value))
    THEN Some(chars_map_collect(trim_end(value), 1, <<>>))
    ELSE None

\* lines 58-86
normalize(value) ==
    IF is_valid(value) THEN Some(chars_map_collect(value, 1, <<>>)) ELSE None

\* lines 24-26: struct Identifier { value: String }
Identifier(str) == [value |-> str]

\* lines 29-37
Identifier_new(value) ==
    LET n == normalize(value) IN
    IF n.tag = "Some" THEN Some(Identifier(n.v)) ELSE None

\* line 43: Deref::deref
Identifier_deref(id) == id.value

\* lines 47-49: Display::fmt, the text written to the formatter
Identifier_display(id) == id.value

\* <str as Debug>::fmt of one character: the quote and the backslash get a
\* backslash, tab and newline are written \t and \n.
escape_debug(c) ==
    IF c = 34 \/ c = 92 THEN <<92, c>>
    ELSE IF c = 9 THEN <<92, 116>>
    ELSE IF c = 10 THEN <<92, 110>>
    ELSE <<c>>

RECURSIVE escape_all(_, _)
escape_all(str, i) ==
    IF i > Len(str) THEN <<>> ELSE escape_debug(str[i]) \o escape_all(str, i + 1)

\* lines 53-55: Debug::fmt, write!(f, "{:?}", self.value)
Identifier_debug(id) == <<34>> \o escape_all(id.value, 1) \o <<34>>

\* String's PartialEq: same length and the same character at every position
String_eq(x, y) == Len(x) = Len(y) /\ \A k \in 1..Len(x) : x[k] = y[k]

\* A slip: a hand-written eq that compares the lengths only.
Identifier_eq_len(x, y) == Len(x.value) = Len(y.value)

\* line 23: #[derive(PartialEq, Eq)] compares the value fields
Identifier_eq(x, y) == String_eq(x.value, y.value)

\* line 23: #[derive(Clone)] clones the value field
Identifier_clone(id) == [value |-> id.value]

----------------------------------------------------------------------------
(* State *)

VARIABLES
    pc,      \* where the running call of Identifier::new is ("idle": no call)
    value,   \* the argument of the running call
    i,       \* position of the iterator in use (all, then map)
    valid,   \* what is_valid returned: "unknown" until it returns
    s,       \* the String collect() has built so far
    norm,    \* what normalize returned
    ret,     \* what Identifier::new returned
    steps,   \* steps the running call has taken
    a,       \* the first Identifier the caller holds (None: not yet)
    b,       \* the second Identifier the caller holds
    out      \* what the last operation on held Identifiers produced

vars == <<pc, value, i, valid, s, norm, ret, steps, a, b, out>>
call == <<pc, value, i, valid, s, norm, ret, steps>>

\* A held Identifier together with how it came to be: raw is the input it was
\* built from, built the text it had when the caller received it.
Held(id, raw, from) ==
    [tag |-> "Some", id |-> id, raw |-> raw, from |-> from, built |-> id.value]

NoOut == [op |-> "none", on |-> <<>>, text |-> <<>>, res |-> FALSE]

Init ==
    /\ pc = "idle"
    /\ value = <<>>
    /\ i = 0
    /\ valid = "unknown"
    /\ s = <<>>
    /\ norm = Pending
    /\ ret = Pending
    /\ steps = 0
    /\ a = None
    /\ b = None
    /\ out = NoOut

----------------------------------------------------------------------------
(* Identifier::new, step by step *)

\* line 29: the call; the callee's locals are fresh
Call(raw) ==
    /\ pc = "idle"
    /\ b.tag = "None"
    /\ pc' = "nth0"
    /\ value' = raw
    /\ i' = 0
    /\ valid' = "unknown"
    /\ s' = <<>>
    /\ norm' = Pending
    /\ ret' = Pending
    /\ steps' = 0
    /\ out' = NoOut
    /\ UNCHANGED <<a, b>>

\* lines 61-65, 74-76: the first character decides, or the scan starts
FirstChar ==
    /\ pc = "nth0"
    /\ LET c == chars_nth(value, 0) IN
         IF c.tag = "Some" /\ ~is_digit_or_space(c.v)
         THEN pc' = "all" /\ i' = 1 /\ valid' = valid
         ELSE pc' = "if" /\ i' = i /\ valid' = "false"
    /\ steps' = steps + 1
    /\ UNCHANGED <<value, s, norm, ret, a, b, out>>

\* A slip: the scan never advances.
AllStep_stuck ==
    /\ pc = "all"
    /\ IF i > Len(value)
       THEN pc' = "if" /\ i' = i /\ valid' = "true"
       ELSE IF is_allowed(value[i])
       THEN pc' = pc /\ i' = i /\ valid' = valid
       ELSE pc' = "if" /\ i' = i /\ valid' = "false"
    /\ steps' = steps + 1
    /\ UNCHANGED <<value, s, norm, ret, a, b, out>>

\* lines 66-71: one step of all(): the end of the input, an allowed
\* character, or the first rejected one
AllStep ==
    /\ pc = "all"
    /\ IF i > Len(value)
       THEN pc' = "if" /\ i' = i /\ valid' = "true"
       ELSE IF is_allowed(value[i])
       THEN pc' = pc /\ i' = i + 1 /\ valid' = valid
       ELSE pc' = "if" /\ i' = i /\ valid' = "false"
    /\ steps' = steps + 1
    /\ UNCHANGED <<value, s, norm, ret, a, b, out>>

\* A slip: the text is folded first and the validity looked at afterwards.
IfValid_eager ==
    /\ pc = "if"
    /\ pc' = "collect"
    /\ i' = 1
    /\ norm' = norm
    /\ steps' = steps + 1
    /\ UNCHANGED <<value, valid, s, ret, a, b, out>>

\* lines 79, 83-85: if is_valid(value) { .. } else { None }
IfValid ==
    /\ pc = "if"
    /\ IF valid = "true"
       THEN pc' = "collect" /\ i' = 1 /\ norm' = norm
       ELSE pc' = "match" /\ i' = i /\ norm' = None
    /\ steps' = steps + 1
    /\ UNCHANGED <<value, valid, s, ret, a, b, out>>

\* lines 80-82: one step of map(..).collect(): fold the next character, or
\* the end of the input and normalize returns Some
CollectStep ==
    /\ pc = "collect"
    /\ IF i > Len(value)
       THEN pc' = "match" /\ i' = i /\ s' = s /\ norm' = Some(s)
       ELSE /\ pc' = pc
            /\ i' = i + 1
            /\ s' = Append(s, to_ascii_lowercase(value[i]))
            /\ norm' = norm
    /\ steps' = steps + 1
    /\ UNCHANGED <<value, valid, ret, a, b, out>>

\* lines 31-36: match normalize(value)
Match ==
    /\ pc = "match"
    /\ ret' = IF norm.tag = "Some" THEN Some(Identifier(norm.v)) ELSE None
    /\ pc' = "done"
    /\ steps' = steps + 1
    /\ UNCHANGED <<value, i, valid, s, norm, a, b, out>>

\* lines 94-100: the caller receives the Option; an Identifier is kept in the
\* first free place, and the call's frame is gone
Return ==
    /\ pc = "done"
    /\ IF ret.tag = "Some"
       THEN IF a.tag = "None"
            THEN a' = Held(ret.v, value, "new") /\ b' = b
            ELSE a' = a /\ b' = Held(ret.v, value, "new")
       ELSE UNCHANGED <<a, b>>
    /\ out' = out
    /\ pc' = "idle"
    /\ value' = <<>>
    /\ i' = 0
    /\ valid' = "unknown"
    /\ s' = <<>>
    /\ norm' = Pending
    /\ ret' = Pending
    /\ steps' = 0

NewStep == FirstChar \/ AllStep \/ IfValid \/ CollectStep \/ Match \/ Return

\* lines 104, 108: the caller hands the canonical text of the Identifier it
\* holds back to Identifier::new
Renew ==
    /\ a.tag = "Some"
    /\ Call(Identifier_deref(a.id))

\* lines 29-37 as one step: the whole call, from the argument to the Option
\* it returns; the callee's locals are not kept
New(raw) ==
    /\ pc = "idle"
    /\ b.tag = "None"
    /\ pc' = "done"
    /\ value' = raw
    /\ ret' = Identifier_new(raw)
    /\ out' = NoOut
    /\ UNCHANGED <<i, valid, s, norm, steps, a, b>>

----------------------------------------------------------------------------
(* The operations on an Identifier the caller holds *)

Places == {"a", "b"}
At(x) == IF x = "a" THEN a ELSE b

\* line 43: &*x, the read-only view of the text
Deref(x) ==
    /\ pc = "idle"
    /\ At(x).tag = "Some"
    /\ out' = [op |-> "deref", on |-> <<x>>, res |-> TRUE,
               text |-> Identifier_deref(At(x).id)]
    /\ UNCHANGED <<call, a, b>>

\* lines 46-50: format!("{}", x)
Display(x) ==
    /\ pc = "idle"
    /\ At(x).tag = "Some"
    /\ out' = [op |-> "display", on |-> <<x>>, res |-> TRUE,
               text |-> Identifier_display(At(x).id)]
    /\ UNCHANGED <<call, a, b>>

\* lines 52-56: format!("{:?}", x)
Debug(x) ==
    /\ pc = "idle"
    /\ At(x).tag = "Some"
    /\ out' = [op |-> "debug", on |-> <<x>>, res |-> TRUE,
               text |-> Identifier_debug(At(x).id)]
    /\ UNCHANGED <<call, a, b>>

\* line 23: x == y
Eq(x, y) ==
    /\ pc = "idle"
    /\ At(x).tag = "Some"
    /\ At(y).tag = "Some"
    /\ out' = [op |-> "eq", on |-> <<x, y>>, text |-> <<>>,
               res |-> Identifier_eq(At(x).id, At(y).id)]
    /\ UNCHANGED <<call, a, b>>

\* A slip: the text is moved out of the original instead of copied.
Clone_take ==
    /\ pc = "idle"
    /\ a.tag = "Some"
    /\ b.tag = "None"
    /\ b' = Held(Identifier_clone(a.id), a.raw, "clone")
    /\ a' = [a EXCEPT !.id = Identifier(<<>>)]
    /\ out' = [op |-> "clone", on |-> <<"a">>, text |-> <<>>, res |-> TRUE]
    /\ UNCHANGED call

\* line 23: let b = a.clone()
Clone ==
    /\ pc = "idle"
    /\ a.tag = "Some"
    /\ b.tag = "None"
    /\ b' = Held(Identifier_clone(a.id), a.raw, "clone")
    /\ out' = [op |-> "clone", on |-> <<"a">>, text |-> <<>>, res |-> TRUE]
    /\ UNCHANGED <<call, a>>

Use ==
    \/ \E x \in Places : Deref(x)
    \/ \E x \in Places : Display(x)
    \/ \E x \in Places : Debug(x)
    \/ \E x, y \in Places : Eq(x, y)
    \/ Clone

----------------------------------------------------------------------------
(* The single-call scenario: one input of any kind goes through              *)
(* Identifier::new step by step; the Identifier it gives is used, cloned, or *)
(* its text is handed to Identifier::new again.                              *)

Next ==
    \/ a.tag = "None" /\ pc = "idle" /\ \E raw \in Inputs : Call(raw)
    \/ NewStep
    \/ Renew
    \/ Use

Spec == Init /\ [][Next]_vars

(* The two-identifier scenario: the caller builds Identifiers from any two   *)
(* inputs and uses them.                                                     *)

NextPair ==
    \/ b.tag = "None" /\ pc = "idle" /\ \E raw \in PairInputs : New(raw)
    \/ Return
    \/ Use

SpecPair == Init /\ [][NextPair]_vars

----------------------------------------------------------------------------
(* The vocabulary of the properties, stated from the naming rules and not   *)
(* from the code: lines 7-19 of the documentation comment.                  *)

LowerLetters == LowerA..LowerZ
UpperLetters == UpperA..UpperZ
Digits == Digit0..Digit9
Permitted == LowerLetters \cup UpperLetters \cup Digits \cup {Underscore, Space}

\* The three validity rules.
ValidRule(raw) ==
    /\ Len(raw) >= 1
    /\ raw[1] \notin Digits \cup {Space}
    /\ \A k \in 1..Len(raw) : raw[k] \in Permitted

\* The same set of inputs, said the other way.
ValidAlphabet(raw) ==
    /\ raw # <<>>
    /\ \A k \in 1..Len(raw) : raw[k] \in Permitted
    /\ raw[1] \in LowerLetters \cup UpperLetters \cup {Underscore}

\* The lower-case letter an upper-case letter corresponds to; any other
\* character is itself.
FoldOf(c) == IF c \in UpperLetters THEN LowerA + (c - UpperA) ELSE c

\* What an Identifier's value may be.
StoredForm(id) ==
    /\ id.value # <<>>
    /\ \A k \in 1..Len(id.value) :
         id.value[k] \in LowerLetters \cup Digits \cup {Underscore, Space}
    /\ id.value[1] \notin Digits \cup {Space}

IsLetter(c) == c \in LowerLetters \cup UpperLetters
LetterIndex(c) == IF c \in UpperLetters THEN c - UpperA ELSE c - LowerA

\* t is s with only the case of some letters changed.
Recasing(s1, s2) ==
    /\ Len(s1) = Len(s2)
    /\ \A k \in 1..Len(s1) :
         \/ s1[k] = s2[k]
         \/ IsLetter(s1[k]) /\ IsLetter(s2[k]) /\ LetterIndex(s1[k]) = LetterIndex(s2[k])

\* s and t are equal after ASCII case folding.
FoldedEqual(s1, s2) ==
    /\ Len(s1) = Len(s2)
    /\ \A k \in 1..Len(s1) : FoldOf(s1[k]) = FoldOf(s2[k])

\* str followed by n spaces
Pad(str, n) == str \o [k \in 1..n |-> Space]

Returned == pc = "done"
Built(x) == x.tag = "Some" /\ x.from = "new"

----------------------------------------------------------------------------
(* The properties *)

\* C1: when Identifier::new returns, it returns an Identifier exactly when the
\* input is non-empty, its first character is neither a digit nor a space, and
\* every character is in [a-zA-Z0-9_ ]; otherwise it returns None.  These are
\* exactly the non-empty strings over that alphabet that start with a letter
\* or an underscore.
C1_ValidExactly ==
    Returned =>
        /\ ret.tag = "Some" <=> ValidRule(value)
        /\ ret.tag # "Some" => ret = None
        /\ ret.tag = "Some" <=> ValidAlphabet(value)

\* An input of permitted characters with a good first character and a
\* non-ASCII letter at its end has been rejected.
C1_Witness ==
    /\ Returned
    /\ ret = None
    /\ Len(value) >= 3
    /\ value[1] \in LowerLetters \cup UpperLetters
    /\ \A k \in 1..(Len(value) - 1) : value[k] \in Permitted
    /\ value[Len(value)] = 233

\* C2: the text of the Identifier returned for a valid input has the input's
\* length and holds, at every position, the input's character folded to lower
\* case: A-Z become a-z, every other character is unchanged.
C2_FoldedText ==
    /\ (Returned /\ ret.tag = "Some") =>
          LET text == Identifier_deref(ret.v) IN
          /\ Len(text) = Len(value)
          /\ \A k \in 1..Len(value) : text[k] = FoldOf(value[k])
    /\ \A x \in {a, b} : Built(x) =>
          LET text == Identifier_deref(x.id) IN
          /\ Len(text) = Len(x.raw)
          /\ \A k \in 1..Len(x.raw) : text[k] = FoldOf(x.raw[k])

\* A valid input holding an upper-case A and a character that is no letter
\* has been turned into an Identifier.
C2_Witness ==
    /\ Returned
    /\ ret.tag = "Some"
    /\ Len(value) >= 3
    /\ \E k \in 1..Len(value) : value[k] = UpperA
    /\ \E k \in 1..Len(value) : value[k] \in Digits \cup {Underscore, Space}

\* C3: every Identifier there is (returned by Identifier::new, held by the
\* caller, or a clone) has a non-empty value of lower-case letters, digits,
\* underscores and spaces that starts with neither a digit nor a space.
C3_StoredForm ==
    /\ ret.tag = "Some" => StoredForm(ret.v)
    /\ a.tag = "Some" => StoredForm(a.id)
    /\ b.tag = "Some" => StoredForm(b.id)

\* A clone of an Identifier built from an input with an upper-case letter.
C3_Witness ==
    /\ b.tag = "Some"
    /\ b.from = "clone"
    /\ \E k \in 1..Len(a.raw) : a.raw[k] \in UpperLetters

\* C4: with an Identifier built from s held, Identifier::new of any re-casing
\* of s returns an Identifier, and that Identifier equals the one held.
C4_CaseInsensitive ==
    /\ (Returned /\ Built(a) /\ Recasing(a.raw, value)) =>
          (ret.tag = "Some" /\ Identifier_eq(a.id, ret.v))
    /\ (Built(a) /\ Built(b) /\ Recasing(a.raw, b.raw)) =>
          (Identifier_eq(a.id, b.id) /\ Identifier_eq(b.id, a.id))

\* Two Identifiers built from different inputs that are re-casings of each
\* other.
C4_Witness ==
    /\ Built(a)
    /\ Built(b)
    /\ Recasing(a.raw, b.raw)
    /\ a.raw # b.raw
    /\ Len(a.raw) >= 2

\* C5: Identifier::new of the text of an Identifier returns an Identifier
\* equal to it, with that very text.
C5_Idempotent ==
    /\ (Returned /\ a.tag = "Some" /\ value = Identifier_deref(a.id)) =>
          /\ ret.tag = "Some"
          /\ Identifier_eq(ret.v, a.id)
          /\ Identifier_deref(ret.v) = value
    /\ (Built(a) /\ Built(b) /\ b.raw = Identifier_deref(a.id)) =>
          /\ Identifier_eq(b.id, a.id)
          /\ Identifier_deref(b.id) = b.raw

\* The text of an Identifier built from an input with upper-case letters has
\* been through Identifier::new again.
C5_Witness ==
    /\ Built(a)
    /\ Built(b)
    /\ b.raw = Identifier_deref(a.id)
    /\ a.raw # b.raw

\* C6: a == b exactly when the two texts are the same character for
\* character; for Identifiers built from s and t, exactly when s and t are
\* equal after ASCII case folding.
C6_StructuralEquality ==
    /\ out.op = "eq" =>
          (out.res <=> Identifier_deref(At(out.on[1]).id) = Identifier_deref(At(out.on[2]).id))
    /\ (a.tag = "Some" /\ b.tag = "Some") =>
          (Identifier_eq(a.id, b.id) <=> Identifier_deref(a.id) = Identifier_deref(b.id))
    /\ (Built(a) /\ Built(b)) =>
          (Identifier_eq(a.id, b.id) <=> FoldedEqual(a.raw, b.raw))

\* Two Identifiers built from inputs of the same length that differ in more
\* than case have been compared, and are not equal.
C6_Witness ==
    /\ out.op = "eq"
    /\ out.on = <<"a", "b">>
    /\ ~out.res
    /\ Built(a)
    /\ Built(b)
    /\ Len(a.raw) = Len(b.raw)
    /\ Len(a.raw) >= 2

\* C7: the text of a held Identifier is the text it had when it was built,
\* whatever has been done with it since; a clone equals its original and has
\* the original's text.
C7_Immutable ==
    /\ \A x \in {a, b} : x.tag = "Some" => x.id.value = x.built
    /\ (b.tag = "Some" /\ b.from = "clone") =>
          /\ Identifier_eq(a.id, b.id)
          /\ Identifier_eq(b.id, a.id)
          /\ b.id.value = a.built

\* An Identifier has been cloned and one of the two then formatted with
\* Debug.
C7_Witness ==
    /\ b.tag = "Some"
    /\ b.from = "clone"
    /\ out.op = "debug"
    /\ a.raw # a.built

\* C8: a call of Identifier::new is never in a place that is not one of its
\* own (no fault), takes at most 2 * length + 5 steps and can always take the
\* next one until it returns; what it returns is None or a whole Identifier,
\* and None only for an input that breaks the validity rules.
C8_Total ==
    /\ pc \in {"idle", "nth0", "all", "if", "collect", "match", "done"}
    /\ steps <= 2 * Len(value) + 5
    /\ pc # "idle" => ENABLED NewStep
    /\ Returned =>
          /\ ret.tag \in {"None", "Some"}
          /\ ret.tag = "None" <=> ~ValidRule(value)
          /\ ret.tag = "Some" => Len(ret.v.value) = Len(value)

\* A call on a valid input of three characters or more has returned after
\* the most steps a call can take.
C8_Witness ==
    /\ Returned
    /\ ret.tag = "Some"
    /\ Len(value) >= 3
    /\ steps = 2 * Len(value) + 5

\* C9: characters are folded, and an Identifier made, only once is_valid has
\* returned true; on an invalid input nothing is ever folded or made.
C9_ValidateThenFold ==
    /\ (pc = "collect" \/ s # <<>> \/ norm.tag = "Some" \/ ret.tag = "Some") =>
          (valid = "true" /\ ValidRule(value))
    /\ (pc \notin {"idle", "done"} /\ ~ValidRule(value)) =>
          (pc # "collect" /\ s = <<>> /\ norm.tag # "Some" /\ ret.tag # "Some")
    /\ (Returned /\ ~ValidRule(value)) =>
          (valid = "false" /\ s = <<>> /\ norm = None /\ ret = None)

\* Folding is under way on an input that has been found valid.
C9_Witness ==
    /\ pc = "collect"
    /\ valid = "true"
    /\ Len(s) >= 2
    /\ Len(s) < Len(value)

====
